---- MODULE Spec2Model ----
(***************************************************************************)
(* A model of circuit.py: a Circuit of timestamped gates on named qubits,  *)
(* the synthesis of decoherence channels for the idle intervals            *)
(* (add_waiting_gates), the reordering of the gates (order), the replay    *)
(* of the gates against a state (apply_to), and the three measurement      *)
(* samplers (selection_sampler, uniform_sampler, uniform_noisy_sampler).   *)
(*                                                                         *)
(* Time is discrete: one unit of 1e-6 is Unit ticks, and the timestamps    *)
(* given to add_gate and add_waiting_gates are whole multiples of 1e-6, so *)
(* that every midpoint the synthesis computes is a whole number of ticks.  *)
(***************************************************************************)
EXTENDS Integers, Sequences, FiniteSets, TLC

VARIABLES
    qubits,     \* Circuit.qubits: the names of the qubits, in insertion order
    gates,      \* Circuit.gates: the gates, in collection order
    samplers,   \* the sampler generator objects, by identity
    calls,      \* number of add_waiting_gates calls made
    window,     \* <<tmin, tmax>> as resolved by the last add_waiting_gates call
    phase,      \* "build", "synth", "ordered", "replay", "done"
    sdm,        \* the state the circuit is replayed against
    pos,        \* Circuit.apply_to: index of the gate being applied
    pc,         \* Measurement.apply_to: the statement to execute next
    loc,        \* Measurement.apply_to: its locals p0, p1 and the sampler's reply
    trace,      \* the calls made so far by the gate application in progress
    hist,       \* per sampler, the values sent to it and its replies, in order
    applied,    \* Circuit.apply_to: the ids of the gates applied so far, in order
    replays,    \* number of Circuit.apply_to calls made
    raised      \* the exception the last call raised, "" when it returned

vars ==
    <<qubits, gates, samplers, calls, window, phase, sdm, pos, pc, loc, trace,
      hist, applied, replays, raised>>

replay_vars == <<sdm, pos, pc, loc, trace, applied, replays>>

\* How the call of an action ends, as its caller sees it.
Returns == raised' = ""

Raises(exception) == raised' = exception

(***************************************************************************)
(* Bounds                                                                  *)
(***************************************************************************)
MaxGates == 2       \* gates added by add_gate
MaxTick == 3        \* window bounds are 0 .. MaxTick units of 1e-6
MaxCalls == 2       \* add_waiting_gates calls
MaxColl == 4        \* size of the gate collection that synthesis may produce
MaxSends == 3       \* values sent to one sampler by a direct caller
MaxReplays == 2     \* Circuit.apply_to calls

\* Ticks per 1e-6: midpoints are halved once per nested synthesis.
Unit == 2 ^ MaxCalls

\* The gap threshold 1e-6 of add_waiting_gates, in ticks.
Eps == Unit

\* The window bounds given to add_waiting_gates, and the timestamps given
\* to add_gate: the window may end one unit after the last gate.
Times == { Unit * i : i \in 0 .. MaxTick }

GateTimes == { Unit * i : i \in 0 .. (MaxTick - 1) }

\* Python's None for an omitted tmin or tmax (timestamps are >= 0 here).
None == 0 - 1

QubitNames == {"a", "b"}

(***************************************************************************)
(* Gates                                                                   *)
(***************************************************************************)
\* A gate object.  id is the object's identity (its creation rank in this
\* circuit); annotation is a string, as the sequence of its characters, and
\* <<>> for None; sampler is the identity of a Measurement's sampler, else 0.
GateObj(kind, time, qs, duration, sampler) ==
    [id |-> 0, kind |-> kind, time |-> time, involved_qubits |-> qs,
     duration |-> duration, sampler |-> sampler, measurements |-> <<>>,
     annotation |-> <<>>]

Hadamard(bit, time) == GateObj("hadamard", time, <<bit>>, 0, 0)

CPhase(bit0, bit1, time) == GateObj("cphase", time, <<bit0, bit1>>, 0, 0)

AmpPhDamp(bit, time, duration) ==
    GateObj("amp_ph_damping", time, <<bit>>, duration, 0)

Measurement(bit, time, sampler) ==
    GateObj("measurement", time, <<bit>>, 0, sampler)

is_measurement(g) == g.kind = "measurement"

involves_qubit(g, bit) ==
    \E i \in 1 .. Len(g.involved_qubits) : g.involved_qubits[i] = bit

\* self.gates.append(gate): the appended object gets the next identity.
Append_gate(gs, g) == Append(gs, [g EXCEPT !.id = Len(gs) + 1])

RECURSIVE Append_gates(_, _)
Append_gates(gs, new) ==
    IF new = <<>> THEN gs
    ELSE Append_gates(Append_gate(gs, Head(new)), Tail(new))

(***************************************************************************)
(* sorted(self.gates, key=lambda g: g.time): a stable sort by timestamp.   *)
(***************************************************************************)
RECURSIVE InsertByTime(_, _)
InsertByTime(sorted, g) ==
    IF sorted = <<>> THEN <<g>>
    ELSE IF Head(sorted).time <= g.time
         THEN <<Head(sorted)>> \o InsertByTime(Tail(sorted), g)
         ELSE <<g>> \o sorted

\* Mutant: the collection is taken as it is, unsorted.
Unsorted(gs) == gs

RECURSIVE SortedByTime(_)
SortedByTime(gs) ==
    IF gs = <<>> THEN <<>>
    ELSE InsertByTime(SortedByTime(SubSeq(gs, 1, Len(gs) - 1)), gs[Len(gs)])

(***************************************************************************)
(* add_waiting_gates                                                       *)
(***************************************************************************)
\* The gates of qubit b inside the window, in time order.
GatesInWindow(all_gates, b, tmin, tmax) ==
    SelectSeq(all_gates,
              LAMBDA g : involves_qubit(g, b) /\ tmin <= g.time /\ g.time <= tmax)

\* Mutant: a channel is stamped with the time of the earlier gate.
BetweenChannelsAtStart(b, gts) ==
    [i \in 1 .. (Len(gts) - 1) |->
        AmpPhDamp(b, gts[i].time, gts[i + 1].time - gts[i].time)]

\* zip(gts[:-1], gts[1:]): one channel per consecutive pair.
BetweenChannels(b, gts) ==
    [i \in 1 .. (Len(gts) - 1) |->
        AmpPhDamp(b, (gts[i].time + gts[i + 1].time) \div 2,
                  gts[i + 1].time - gts[i].time)]

\* Mutant: the trailing gap gets no channel.
ChannelsForNoTrail(all_gates, b, tmin, tmax) ==
    LET gts == GatesInWindow(all_gates, b, tmin, tmax)
    IN  IF gts = <<>>
        THEN <<AmpPhDamp(b, (tmax + tmin) \div 2, tmax - tmin)>>
        ELSE (IF gts[1].time - tmin > Eps
              THEN <<AmpPhDamp(b, (gts[1].time + tmin) \div 2, gts[1].time - tmin)>>
              ELSE <<>>)
             \o BetweenChannels(b, gts)

\* Mutant: the trailing channel starts at the first gate, not the last.
ChannelsForTrailFromFirst(all_gates, b, tmin, tmax) ==
    LET gts == GatesInWindow(all_gates, b, tmin, tmax)
    IN  IF gts = <<>>
        THEN <<AmpPhDamp(b, (tmax + tmin) \div 2, tmax - tmin)>>
        ELSE (IF gts[1].time - tmin > Eps
              THEN <<AmpPhDamp(b, (gts[1].time + tmin) \div 2, gts[1].time - tmin)>>
              ELSE <<>>)
             \o
             (IF tmax - gts[Len(gts)].time > Eps
              THEN <<AmpPhDamp(b, (gts[1].time + tmax) \div 2,
                               tmax - gts[1].time)>>
              ELSE <<>>)
             \o BetweenChannels(b, gts)

\* The channels the loop body adds for qubit b, in the order it adds them.
ChannelsFor(all_gates, b, tmin, tmax) ==
    LET gts == GatesInWindow(all_gates, b, tmin, tmax)
    IN  IF gts = <<>>
        THEN <<AmpPhDamp(b, (tmax + tmin) \div 2, tmax - tmin)>>
        ELSE (IF gts[1].time - tmin > Eps
              THEN <<AmpPhDamp(b, (gts[1].time + tmin) \div 2, gts[1].time - tmin)>>
              ELSE <<>>)
             \o
             (IF tmax - gts[Len(gts)].time > Eps
              THEN <<AmpPhDamp(b, (gts[Len(gts)].time + tmax) \div 2,
                               tmax - gts[Len(gts)].time)>>
              ELSE <<>>)
             \o BetweenChannels(b, gts)

RECURSIVE AllChannels(_, _, _, _)
AllChannels(all_gates, qs, tmin, tmax) ==
    IF qs = <<>> THEN <<>>
    ELSE ChannelsFor(all_gates, Head(qs), tmin, tmax)
         \o AllChannels(all_gates, Tail(qs), tmin, tmax)

\* tmin, tmax after the defaults are filled in.
ResolveTmin(all_gates, tmin) ==
    IF tmin = None THEN all_gates[1].time ELSE tmin

ResolveTmax(all_gates, tmax) ==
    IF tmax = None THEN all_gates[Len(all_gates)].time ELSE tmax

add_waiting_gates(tmin, tmax) ==
    /\ phase \in {"build", "synth"}
    /\ calls < MaxCalls
    /\ LET all_gates == SortedByTime(gates)
       IN  IF all_gates = <<>> /\ (tmin = None \/ tmax = None)
           THEN /\ gates' = gates
                /\ window' = <<None, None>>
           ELSE LET lo == ResolveTmin(all_gates, tmin)
                    hi == ResolveTmax(all_gates, tmax)
                IN  /\ gates' = Append_gates(gates,
                                     AllChannels(all_gates, qubits, lo, hi))
                    /\ window' = <<lo, hi>>
    /\ calls' = calls + 1
    /\ phase' = "synth"
    /\ Len(gates') <= MaxColl
    /\ UNCHANGED <<qubits, samplers, hist>>
    /\ UNCHANGED replay_vars
    /\ Returns

(***************************************************************************)
(* The samplers: generator objects                                         *)
(***************************************************************************)
\* np.random.RandomState, as a full-period linear congruential generator
\* whose values r / RngMod lie in [0, 1).
RngMod == 2 ^ 3

DefaultSeed == 42

RandomState(seed) == seed % RngMod

\* rng.random_sample(): the stream after the draw; the value drawn is the
\* new state, in units of 1 / RngMod.
random_sample(rng) == (5 * rng + 3) % RngMod

\* A probability or weight is a pair <<numerator, denominator>>.
One == <<1, 1>>

\* The value sent by next(): None.
NoValue == <<>>

\* A generator object.  gen is where the generator is suspended: "created"
\* (not started), "primed" (at the bare yield), "yielded" (at a yield of a
\* triple), "closed" (ended by an exception).
\* rng, draws, p, proj and decl are the locals of the suspended frame: the
\* random stream, the number of draws made of it, the pair (p0, p1) received
\* last, and the outcome and the declaration computed last.
SamplerObj(kind, result, readout_error, seed) ==
    [kind |-> kind, result |-> result, readout_error |-> readout_error,
     seed |-> seed, gen |-> "created", rng |-> 0, draws |-> 0,
     p |-> <<0, 0>>, proj |-> 0, decl |-> 0]

selection_sampler(result) == SamplerObj("selection", result, 0, 0)

uniform_sampler(seed) == SamplerObj("uniform", 0, 0, seed)

uniform_noisy_sampler(readout_error, seed) ==
    SamplerObj("noisy", 0, readout_error, seed)

\* r < p0/(p0+p1), with r in units of 1 / RngMod.
Below(r, p) == r * (p[1] + p[2]) < RngMod * p[1]

\* What resuming a generator gives: the generator afterwards, the value it
\* yields (<<>> for None) and the exception it raises ("" for none).
Reply(s, out, err) == [s |-> s, out |-> out, err |-> err]

\* Mutant: the weight is the probability of the selected result.
SelectionResumeWeighted(s, v) ==
    Reply([s EXCEPT !.gen = "yielded"],
          <<s.result, s.result,
            IF v = NoValue THEN One ELSE <<v[s.result + 1], v[1] + v[2]>> >>, "")

\* selection_sampler's body: while True: yield result, result, 1
SelectionResume(s, v) ==
    Reply([s EXCEPT !.gen = "yielded"], <<s.result, s.result, One>>, "")

\* Mutant: the weight is the probability of the outcome drawn.
UniformResumeWeighted(s, v) ==
    IF v = NoValue
    THEN Reply([s EXCEPT !.gen = "closed"], <<>>, "TypeError")
    ELSE LET r == random_sample(s.rng)
             outcome == IF Below(r, v) THEN 0 ELSE 1
         IN  Reply([s EXCEPT !.gen = "yielded", !.p = v, !.rng = r,
                             !.draws = @ + 1, !.proj = outcome,
                             !.decl = outcome],
                   <<outcome, outcome, <<v[outcome + 1], v[1] + v[2]>> >>, "")

\* Mutant: the random stream is made anew at every send.
UniformResumeReseeding(s, v) ==
    IF v = NoValue
    THEN Reply([s EXCEPT !.gen = "closed"], <<>>, "TypeError")
    ELSE LET r == random_sample(RandomState(s.seed))
             outcome == IF Below(r, v) THEN 0 ELSE 1
         IN  Reply([s EXCEPT !.gen = "yielded", !.p = v, !.rng = r,
                             !.draws = @ + 1, !.proj = outcome,
                             !.decl = outcome],
                   <<outcome, outcome, One>>, "")

\* Mutant: the outcome is computed from the pair received one send before.
UniformResumeLagging(s, v) ==
    IF v = NoValue
    THEN Reply([s EXCEPT !.gen = "closed"], <<>>, "TypeError")
    ELSE LET r == random_sample(s.rng)
             outcome == IF Below(r, s.p) THEN 0 ELSE 1
         IN  Reply([s EXCEPT !.gen = "yielded", !.p = v, !.rng = r,
                             !.draws = @ + 1, !.proj = outcome,
                             !.decl = outcome],
                   <<outcome, outcome, One>>, "")

\* uniform_sampler's body from the statement p0, p1 = yield on.
UniformResume(s, v) ==
    IF v = NoValue
    THEN Reply([s EXCEPT !.gen = "closed"], <<>>, "TypeError")
    ELSE LET r == random_sample(s.rng)
             outcome == IF Below(r, v) THEN 0 ELSE 1
         IN  Reply([s EXCEPT !.gen = "yielded", !.p = v, !.rng = r,
                             !.draws = @ + 1, !.proj = outcome,
                             !.decl = outcome],
                   <<outcome, outcome, One>>, "")

\* uniform_noisy_sampler's body from the statement p0, p1 = yield on.
NoisyResume(s, v) ==
    IF v = NoValue
    THEN Reply([s EXCEPT !.gen = "closed"], <<>>, "TypeError")
    ELSE LET r1 == random_sample(s.rng)
             proj == IF Below(r1, v) THEN 0 ELSE 1
             r2 == random_sample(r1)
             flip == r2 < s.readout_error
             decl == IF flip THEN 1 - proj ELSE proj
             prob == IF flip THEN <<s.readout_error, RngMod>>
                     ELSE <<RngMod - s.readout_error, RngMod>>
         IN  Reply([s EXCEPT !.gen = "yielded", !.p = v, !.rng = r2,
                             !.draws = @ + 2, !.proj = proj, !.decl = decl],
                   <<proj, decl, prob>>, "")

\* generator.send(v); next(generator) is send(None).
Resume(s, v) ==
    IF s.gen = "closed" THEN Reply(s, <<>>, "StopIteration")
    ELSE IF s.gen = "created" /\ v # NoValue THEN Reply(s, <<>>, "TypeError")
    ELSE IF s.kind = "selection" THEN SelectionResume(s, v)
    ELSE IF s.gen = "created"
         THEN Reply([s EXCEPT !.gen = "primed", !.rng = RandomState(s.seed)],
                    <<>>, "")
    ELSE IF s.kind = "uniform" THEN UniformResume(s, v)
    ELSE NoisyResume(s, v)

(***************************************************************************)
(* Building the circuit                                                    *)
(***************************************************************************)
Results == {0, 1}
ReadoutErrors == {2}
Seeds == {DefaultSeed, DefaultSeed + 4}

\* The generator objects a caller may hand to Measurement.
FreshSamplers ==
    { selection_sampler(r) : r \in Results }
    \cup { uniform_noisy_sampler(e, sd) : e \in ReadoutErrors, sd \in Seeds }

\* add_qubit(name, t1, t2); qubit identifiers are unique, and are taken in
\* the order of QubitOrder (the names are interchangeable).
QubitOrder == <<"a", "b">>

add_qubit ==
    /\ phase = "build"
    /\ Len(qubits) < Len(QubitOrder)
    /\ qubits' = Append(qubits, QubitOrder[Len(qubits) + 1])
    /\ UNCHANGED <<gates, samplers, calls, window, phase, hist>>
    /\ UNCHANGED replay_vars
    /\ Returns

add_hadamard(bit, time) ==
    /\ phase = "build"
    /\ qubits # <<>>
    /\ Len(gates) < MaxGates
    /\ gates' = Append_gate(gates, Hadamard(bit, time))
    /\ UNCHANGED <<qubits, samplers, calls, window, phase, hist>>
    /\ UNCHANGED replay_vars
    /\ Returns

add_cphase(bit0, bit1, time) ==
    /\ phase = "build"
    /\ qubits # <<>>
    /\ Len(gates) < MaxGates
    /\ gates' = Append_gate(gates, CPhase(bit0, bit1, time))
    /\ UNCHANGED <<qubits, samplers, calls, window, phase, hist>>
    /\ UNCHANGED replay_vars
    /\ Returns

\* Measurement.__init__ with a sampler object of the caller's (fresh: no
\* other Measurement holds it), or the default sampler for None; the
\* sampler is primed with next().
MeasurementSampler(given) ==
    IF given = NoValue THEN uniform_sampler(DefaultSeed) ELSE given

add_measurement(bit, time, given) ==
    /\ phase = "build"
    /\ qubits # <<>>
    /\ Len(gates) < MaxGates
    /\ LET primed == Resume(MeasurementSampler(given), NoValue)
       IN  /\ primed.err = ""
           /\ samplers' = Append(samplers, primed.s)
           /\ hist' = Append(hist, <<>>)
           /\ gates' = Append_gate(gates,
                                   Measurement(bit, time, Len(samplers) + 1))
    /\ UNCHANGED <<qubits, calls, window, phase>>
    /\ UNCHANGED replay_vars
    /\ Returns

\* Measurement.__init__ with a sampler object that a Measurement of the
\* circuit already holds: the sampler is resumed by next() once more; an
\* exception of the sampler leaves the Measurement unmade.
add_measurement_shared(bit, time, i) ==
    /\ phase = "build"
    /\ qubits # <<>>
    /\ Len(gates) < MaxGates
    /\ i \in 1 .. Len(samplers)
    /\ LET primed == Resume(samplers[i], NoValue)
       IN  /\ samplers' = [samplers EXCEPT ![i] = primed.s]
           /\ IF primed.err = ""
              THEN /\ gates' = Append_gate(gates, Measurement(bit, time, i))
                   /\ Returns
              ELSE /\ gates' = gates
                   /\ Raises(primed.err)
    /\ UNCHANGED <<qubits, calls, window, phase, hist>>
    /\ UNCHANGED replay_vars

\* Circuit.gate_classes: the registered kind identifiers.
gate_classes == {"cphase", "hadamard", "amp_ph_damping", "measurement"}

\* The kind identifiers a caller may give.
KindNames == gate_classes \cup {"toffoli"}

\* Mutant: a kind that is not registered is appended as it is.
add_gate_unchecked(gate_type, bit, time) ==
    /\ phase = "build"
    /\ qubits # <<>>
    /\ Len(gates) < MaxGates
    /\ gates' = Append_gate(gates, GateObj(gate_type, time, <<bit>>, 0, 0))
    /\ Returns
    /\ UNCHANGED <<qubits, samplers, calls, window, phase, hist>>
    /\ UNCHANGED replay_vars

\* add_gate(gate_type, bit, time) with a string for gate_type: the class is
\* looked up in gate_classes (KeyError when it is not there) and called
\* with (bit, time), which only Hadamard accepts (TypeError otherwise);
\* the gate is appended after that.
add_gate(gate_type, bit, time) ==
    /\ phase = "build"
    /\ qubits # <<>>
    /\ Len(gates) < MaxGates
    /\ IF gate_type \notin gate_classes
       THEN gates' = gates /\ Raises("KeyError")
       ELSE IF gate_type = "hadamard"
            THEN gates' = Append_gate(gates, Hadamard(bit, time)) /\ Returns
            ELSE gates' = gates /\ Raises("TypeError")
    /\ UNCHANGED <<qubits, samplers, calls, window, phase, hist>>
    /\ UNCHANGED replay_vars

\* Circuit.__getattribute__("add_" + kind): a registered kind gives the
\* partial add_gate, any other name is looked up as an ordinary attribute,
\* which fails.
Circuit_getattribute(kind) ==
    /\ phase = "build"
    /\ IF kind \in gate_classes THEN Returns ELSE Raises("AttributeError")
    /\ UNCHANGED <<qubits, gates, samplers, calls, window, phase, hist>>
    /\ UNCHANGED replay_vars

(***************************************************************************)
(* order                                                                   *)
(***************************************************************************)
\* "%d" % n, as the sequence of the characters of the string.
Digit(d) == <<"0", "1", "2", "3", "4", "5", "6", "7", "8", "9">>[d + 1]

RECURSIVE Fmt_d(_)
Fmt_d(n) ==
    IF n < 10 THEN <<Digit(n)>> ELSE Append(Fmt_d(n \div 10), Digit(n % 10))

\* Mutant: no gate is recognised as a measurement.
NoMeasurementIndices(all_gates) == {}

\* measurements: the indices of the measurement gates in the sorted list.
MeasurementIndices(all_gates) ==
    { n \in 1 .. Len(all_gates) : is_measurement(all_gates[n]) }

\* dependencies: g2 depends on g1 when both involve a qubit b of the
\* circuit and are consecutive among the gates of b in the sorted list.
\* gts: the indices of the gates of qubit b in the sorted list, in order.
QubitChain(all_gates, b) ==
    SelectSeq([n \in 1 .. Len(all_gates) |-> n],
              LAMBDA n : involves_qubit(all_gates[n], b))

\* Mutant: the edges of a chain point from the earlier gate to the later.
ChainEdgesReversed(gts, g2) ==
    { gts[i + 1] : i \in { j \in 1 .. (Len(gts) - 1) : gts[j] = g2 } }

\* zip(gts[:-1], gts[1:]): the g1 of the pairs (g1, g2) of a chain.
ChainEdges(gts, g2) ==
    { gts[i] : i \in { j \in 1 .. (Len(gts) - 1) : gts[j + 1] = g2 } }

Dependencies(all_gates, qs) ==
    [g2 \in 1 .. Len(all_gates) |->
        UNION { ChainEdges(QubitChain(all_gates, qs[i]), g2) :
                    i \in 1 .. Len(qs) }]

SeqRange(sq) == { sq[i] : i \in 1 .. Len(sq) }

\* tp.greedy_toposort(dependencies, targets): every order it may return.
\* A node is eligible once all its predecessors are placed; an eligible
\* node outside targets is placed before any eligible target.
RECURSIVE GreedyOrders(_, _, _)
GreedyOrders(deps, targets, sofar) ==
    LET done == SeqRange(sofar)
        ready == { n \in DOMAIN deps : n \notin done /\ deps[n] \subseteq done }
        cand == IF ready \ targets # {} THEN ready \ targets ELSE ready
    IN  IF done = DOMAIN deps THEN {sofar}
        ELSE UNION { GreedyOrders(deps, targets, Append(sofar, n)) : n \in cand }

greedy_toposort(deps, targets) == GreedyOrders(deps, targets, <<>>)

\* Mutant: a gate is annotated with its index in the sorted list.
ReorderedBySortedIndex(all_gates, ord) ==
    [n \in 1 .. Len(ord) |->
        [all_gates[ord[n]] EXCEPT !.annotation = Fmt_d(ord[n] - 1)]]

\* The collection order() installs for the schedule ord.
Reordered(all_gates, ord) ==
    [n \in 1 .. Len(ord) |->
        [all_gates[ord[n]] EXCEPT !.annotation = Fmt_d(n - 1)]]

order ==
    /\ phase \in {"build", "synth"}
    /\ LET all_gates == SortedByTime(gates)
       IN  \E ord \in greedy_toposort(Dependencies(all_gates, qubits),
                                      MeasurementIndices(all_gates)) :
               gates' = Reordered(all_gates, ord)
    /\ phase' = "ordered"
    /\ UNCHANGED <<qubits, samplers, calls, window, hist>>
    /\ UNCHANGED replay_vars
    /\ Returns

(***************************************************************************)
(* The state the circuit is applied to                                     *)
(***************************************************************************)
\* The populations <<p0, p1>> of each qubit and classical_probability.
Ground == <<1, 0>>
Excited == <<0, 1>>
Mixed == <<1, 1>>

InitialSdm ==
    [pop |-> [q \in QubitNames |-> Ground], classical_probability |-> One]

peak_measurement(s, bit) == s.pop[bit]

project_measurement(s, bit, v) ==
    [s EXCEPT !.pop[bit] = IF v = 0 THEN Ground ELSE Excited]

hadamard(s, bit) ==
    [s EXCEPT !.pop[bit] = IF @ = Mixed THEN Ground ELSE Mixed]

cphase(s, bit0, bit1) == s

\* A channel of positive duration lets an excited qubit relax in part.
amp_ph_damping(s, bit, duration) ==
    [s EXCEPT !.pop[bit] = IF duration > 0 /\ @ = Excited THEN Mixed ELSE @]

\* classical_probability *= cond_prob
Times_prob(a, b) == <<a[1] * b[1], a[2] * b[2]>>

\* Gate.apply_to: the state method named by method_name.
Gate_apply_to(g, s) ==
    IF g.kind = "hadamard" THEN hadamard(s, g.involved_qubits[1])
    ELSE IF g.kind = "cphase"
         THEN cphase(s, g.involved_qubits[1], g.involved_qubits[2])
    ELSE amp_ph_damping(s, g.involved_qubits[1], g.duration)

(***************************************************************************)
(* Circuit.apply_to and Measurement.apply_to                               *)
(***************************************************************************)
Call(op, arg, res) == [op |-> op, arg |-> arg, res |-> res]

NoLoc == [p |-> <<0, 0>>, ret |-> <<>>]

\* The gate the loop of Circuit.apply_to is at.
Current == gates[pos]

\* Circuit.apply_to(sdm) is called with a fresh state.
Circuit_apply_to ==
    /\ phase \in {"ordered", "done"}
    /\ replays < MaxReplays
    /\ replays' = replays + 1
    /\ phase' = IF gates = <<>> THEN "done" ELSE "replay"
    /\ sdm' = InitialSdm
    /\ pos' = 1
    /\ pc' = "next"
    /\ loc' = NoLoc
    /\ trace' = <<>>
    /\ applied' = <<>>
    /\ Returns
    /\ UNCHANGED <<qubits, gates, samplers, calls, window, hist>>

\* The loop moves on to the next gate, or ends.
Advance ==
    /\ pos' = pos + 1
    /\ pc' = "next"
    /\ phase' = IF pos = Len(gates) THEN "done" ELSE phase

\* gate.apply_to(sdm) for a gate that is no measurement.
ApplyGate ==
    /\ phase = "replay" /\ pc = "next"
    /\ ~is_measurement(Current)
    /\ sdm' = Gate_apply_to(Current, sdm)
    /\ trace' = <<Call(Current.kind, Current.involved_qubits, <<>>)>>
    /\ applied' = Append(applied, Current.id)
    /\ Advance
    /\ UNCHANGED <<qubits, gates, samplers, calls, window, loc, hist, replays,
                   raised>>

\* Mutant: the peek measures the qubit, leaving it in the ground state.
MeasPeekCollapsing ==
    /\ phase = "replay" /\ pc = "next"
    /\ is_measurement(Current)
    /\ LET bit == Current.involved_qubits[1]
       IN  /\ loc' = [NoLoc EXCEPT !.p = peak_measurement(sdm, bit)]
           /\ trace' = <<Call("peak_measurement", <<bit>>, loc'.p)>>
           /\ sdm' = project_measurement(sdm, bit, 0)
    /\ pc' = "send"
    /\ applied' = Append(applied, Current.id)
    /\ UNCHANGED <<qubits, gates, samplers, calls, window, phase, pos, hist,
                   replays, raised>>

\* p0, p1 = sdm.peak_measurement(bit)
MeasPeek ==
    /\ phase = "replay" /\ pc = "next"
    /\ is_measurement(Current)
    /\ LET bit == Current.involved_qubits[1]
       IN  /\ loc' = [NoLoc EXCEPT !.p = peak_measurement(sdm, bit)]
           /\ trace' = <<Call("peak_measurement", <<bit>>, loc'.p)>>
    /\ pc' = "send"
    /\ applied' = Append(applied, Current.id)
    /\ UNCHANGED <<qubits, gates, samplers, calls, window, phase, sdm, pos, hist,
                   replays, raised>>

\* declare, project, cond_prob = self.sampler.send((p0, p1)); an exception
\* of the sampler ends Circuit.apply_to.
MeasSend ==
    /\ phase = "replay" /\ pc = "send"
    /\ LET reply == Resume(samplers[Current.sampler], loc.p)
       IN  /\ samplers' = [samplers EXCEPT ![Current.sampler] = reply.s]
           /\ IF reply.err = ""
              THEN /\ loc' = [loc EXCEPT !.ret = reply.out]
                   /\ trace' = Append(trace, Call("send", loc.p, reply.out))
                   /\ hist' = [hist EXCEPT ![Current.sampler] =
                                   Append(@, [p |-> loc.p, out |-> reply.out])]
                   /\ pc' = "append"
                   /\ UNCHANGED <<phase, raised>>
              ELSE /\ phase' = "failed"
                   /\ Raises(reply.err)
                   /\ UNCHANGED <<loc, trace, hist, pc>>
    /\ UNCHANGED <<qubits, gates, calls, window, sdm, pos, applied, replays>>

\* Mutant: the history keeps the last declaration only.
MeasAppendOverwriting ==
    /\ phase = "replay" /\ pc = "append"
    /\ gates' = [gates EXCEPT ![pos].measurements = <<loc.ret[1]>>]
    /\ trace' = Append(trace, Call("append", <<loc.ret[1]>>, <<>>))
    /\ pc' = "project"
    /\ UNCHANGED <<qubits, samplers, calls, window, phase, sdm, pos, loc, hist,
                   applied, replays, raised>>

\* self.measurements.append(declare)
MeasAppend ==
    /\ phase = "replay" /\ pc = "append"
    /\ gates' = [gates EXCEPT ![pos].measurements = Append(@, loc.ret[1])]
    /\ trace' = Append(trace, Call("append", <<loc.ret[1]>>, <<>>))
    /\ pc' = "project"
    /\ UNCHANGED <<qubits, samplers, calls, window, phase, sdm, pos, loc, hist,
                   applied, replays, raised>>

\* sdm.project_measurement(bit, project)
MeasProject ==
    /\ phase = "replay" /\ pc = "project"
    /\ LET bit == Current.involved_qubits[1]
       IN  /\ sdm' = project_measurement(sdm, bit, loc.ret[2])
           /\ trace' = Append(trace,
                              Call("project_measurement", <<bit, loc.ret[2]>>, <<>>))
    /\ pc' = "weight"
    /\ UNCHANGED <<qubits, gates, samplers, calls, window, phase, pos, loc, hist,
                   applied, replays, raised>>

\* sdm.classical_probability *= cond_prob
MeasWeight ==
    /\ phase = "replay" /\ pc = "weight"
    /\ sdm' = [sdm EXCEPT !.classical_probability = Times_prob(@, loc.ret[3])]
    /\ trace' = Append(trace, Call("classical_probability", loc.ret[3], <<>>))
    /\ Advance
    /\ UNCHANGED <<qubits, gates, samplers, calls, window, loc, hist, applied,
                   replays, raised>>

(***************************************************************************)
(* The samplers driven by a caller of their own                            *)
(***************************************************************************)
Probs == {Ground, Mixed, Excited}

\* The two sampler objects a direct caller holds.
CallerSamplers == {1, 2}

CallerFresh ==
    FreshSamplers \cup { uniform_sampler(sd) : sd \in Seeds }

\* sampler = <constructor>(...); next(sampler)
NewSampler(obj) ==
    /\ phase = "build" /\ gates = <<>> /\ qubits = <<>>
    /\ Len(samplers) < Cardinality(CallerSamplers)
    /\ LET primed == Resume(obj, NoValue)
       IN  /\ primed.err = ""
           /\ samplers' = Append(samplers, primed.s)
           /\ hist' = Append(hist, <<>>)
    /\ UNCHANGED <<qubits, gates, calls, window, phase>>
    /\ UNCHANGED replay_vars
    /\ Returns

\* Mutant: all the samplers draw from one random stream.
SendSharedStream(i, p) ==
    /\ phase = "build" /\ gates = <<>> /\ qubits = <<>>
    /\ i \in 1 .. Len(samplers)
    /\ Len(hist[i]) < MaxSends
    /\ LET reply == Resume(samplers[i], p)
       IN  /\ reply.err = ""
           /\ samplers' = [j \in 1 .. Len(samplers) |->
                              IF j = i THEN reply.s
                              ELSE [samplers[j] EXCEPT !.rng = reply.s.rng]]
           /\ hist' = [hist EXCEPT ![i] = Append(@, [p |-> p, out |-> reply.out])]
    /\ UNCHANGED <<qubits, gates, calls, window, phase>>
    /\ UNCHANGED replay_vars
    /\ Returns

\* sampler.send((p0, p1))
Send(i, p) ==
    /\ phase = "build" /\ gates = <<>> /\ qubits = <<>>
    /\ i \in 1 .. Len(samplers)
    /\ Len(hist[i]) < MaxSends
    /\ LET reply == Resume(samplers[i], p)
       IN  /\ reply.err = ""
           /\ samplers' = [samplers EXCEPT ![i] = reply.s]
           /\ hist' = [hist EXCEPT ![i] = Append(@, [p |-> p, out |-> reply.out])]
    /\ UNCHANGED <<qubits, gates, calls, window, phase>>
    /\ UNCHANGED replay_vars
    /\ Returns

(***************************************************************************)
(* The specification                                                       *)
(***************************************************************************)
Init ==
    /\ qubits = <<>>
    /\ gates = <<>>
    /\ samplers = <<>>
    /\ calls = 0
    /\ window = <<None, None>>
    /\ phase = "build"
    /\ sdm = InitialSdm
    /\ pos = 0
    /\ pc = "next"
    /\ loc = NoLoc
    /\ trace = <<>>
    /\ hist = <<>>
    /\ applied = <<>>
    /\ replays = 0
    /\ raised = ""

Build ==
    \/ add_qubit
    \/ \E bit \in QubitNames, time \in GateTimes : add_hadamard(bit, time)
    \/ \E time \in GateTimes : add_cphase("a", "b", time)
    \/ \E bit \in QubitNames, time \in GateTimes,
          given \in FreshSamplers \cup {NoValue} :
           add_measurement(bit, time, given)

\* A window given in full has tmin <= tmax.
Synthesize ==
    \E tmin, tmax \in Times \cup {None} :
        /\ (tmin # None /\ tmax # None) => tmin <= tmax
        /\ add_waiting_gates(tmin, tmax)

ReplaySteps ==
    \/ ApplyGate
    \/ MeasPeek
    \/ MeasSend
    \/ MeasAppend
    \/ MeasProject
    \/ MeasWeight

\* The circuit is replayed once, after order().
Replay == (phase = "ordered" /\ Circuit_apply_to) \/ ReplaySteps

SynthesizeOnce == phase = "build" /\ Synthesize

Next == Build \/ SynthesizeOnce \/ order \/ Replay

Spec == Init /\ [][Next]_vars

NextSynth == Build \/ Synthesize

SpecSynth == Init /\ [][NextSynth]_vars

NextOrder == Build \/ SynthesizeOnce \/ order

SpecOrder == Init /\ [][NextOrder]_vars

\* Calls that a caller may get wrong.
Misuse ==
    \/ \E gate_type \in KindNames, bit \in QubitNames, time \in GateTimes :
           add_gate(gate_type, bit, time)
    \/ \E kind \in KindNames : Circuit_getattribute(kind)

\* One sampler object given to several Measurements.
Sharing ==
    \E bit \in QubitNames, time \in GateTimes, i \in 1 .. MaxGates :
        add_measurement_shared(bit, time, i)

\* The circuit is replayed any number of times.
ReplayMany == Circuit_apply_to \/ ReplaySteps

NextSession == Build \/ Misuse \/ Sharing \/ order \/ ReplayMany

SpecSession == Init /\ [][NextSession]_vars

\* Circuits with two-qubit gates on any pair of names, a name twice included.
BuildAnyPair ==
    \/ add_qubit
    \/ \E bit \in QubitNames, time \in GateTimes : add_hadamard(bit, time)
    \/ \E bit0, bit1 \in QubitNames, time \in GateTimes :
           add_cphase(bit0, bit1, time)
    \/ \E bit \in QubitNames, time \in GateTimes :
           add_measurement(bit, time, selection_sampler(0))

NextDeps == BuildAnyPair \/ SynthesizeOnce \/ order

SpecDeps == Init /\ [][NextDeps]_vars

NextSampler ==
    \/ \E obj \in CallerFresh : NewSampler(obj)
    \/ \E i \in CallerSamplers, p \in Probs : Send(i, p)

SpecSampler == Init /\ [][NextSampler]_vars

(***************************************************************************)
(* Properties of order                                                     *)
(***************************************************************************)
Ordered == phase \in {"ordered", "replay", "done"}

CircuitQubits == SeqRange(qubits)

\* C1: after order(), for every qubit of the circuit, of two gates that
\* both involve the qubit and have different timestamps the one with the
\* earlier timestamp comes first in the collection.
C1_ChronologicalPerQubit ==
    Ordered =>
        \A b \in CircuitQubits : \A i, j \in 1 .. Len(gates) :
            ( /\ involves_qubit(gates[i], b)
              /\ involves_qubit(gates[j], b)
              /\ gates[i].time < gates[j].time ) => i < j

\* Reached: an ordered circuit holding two gates of one qubit that were
\* added latest first.
C1_Witness ==
    /\ phase = "ordered"
    /\ \E b \in CircuitQubits : \E i, j \in 1 .. Len(gates) :
           /\ involves_qubit(gates[i], b)
           /\ involves_qubit(gates[j], b)
           /\ gates[i].time < gates[j].time
           /\ gates[i].id > gates[j].id

\* The measurement of the sorted list on which no gate depends, when the
\* list holds exactly one measurement and no gate depends on it.
LoneFreeMeasurement(all_gates, qs) ==
    LET ms == { n \in 1 .. Len(all_gates) : all_gates[n].kind = "measurement" }
        deps == Dependencies(all_gates, qs)
    IN  /\ Cardinality(ms) = 1
        /\ \A n \in 1 .. Len(all_gates) : deps[n] \cap ms = {}

\* C2: when the circuit holds exactly one measurement and no gate depends
\* on it, order() puts that measurement last.
C2_MeasurementLast ==
    [][ ( /\ phase # "ordered"
          /\ phase' = "ordered"
          /\ LoneFreeMeasurement(SortedByTime(gates), qubits) )
        => is_measurement(gates'[Len(gates')]) ]_vars

\* Reached: an ordered circuit whose only measurement is last although a
\* gate with a later timestamp precedes it.
C2_Witness ==
    /\ phase = "ordered"
    /\ Cardinality({ i \in 1 .. Len(gates) : is_measurement(gates[i]) }) = 1
    /\ is_measurement(gates[Len(gates)])
    /\ \E i \in 1 .. Len(gates) : gates[i].time > gates[Len(gates)].time

\* The decimal string of a position (below 100), as its characters.
DecimalDigits == <<"0", "1", "2", "3", "4", "5", "6", "7", "8", "9">>

PositionString(n) ==
    IF n < 10 THEN <<DecimalDigits[n + 1]>>
    ELSE <<DecimalDigits[(n \div 10) + 1], DecimalDigits[(n % 10) + 1]>>

\* The gate apart from its annotation.
Unannotated(g) == [g EXCEPT !.annotation = <<>>]

\* C15: order() replaces the collection by a permutation of it (each gate
\* of before is there exactly once, the annotation apart, and none is
\* added), and the annotation of each gate is the decimal string of its
\* position, counted from 0, in the new collection.
C15_OrderPermutes ==
    [][ (phase # "ordered" /\ phase' = "ordered") =>
            /\ Len(gates') = Len(gates)
            /\ \A i \in 1 .. Len(gates) :
                   Cardinality({ n \in 1 .. Len(gates') :
                       Unannotated(gates'[n]) = Unannotated(gates[i]) }) = 1
            /\ \A n \in 1 .. Len(gates') :
                   gates'[n].annotation = PositionString(n - 1) ]_vars

\* Reached: an ordered circuit of at least three gates that are not in
\* the order in which they were added.
C15_Witness ==
    /\ phase = "ordered"
    /\ Len(gates) >= 3
    /\ \E n \in 1 .. Len(gates) : gates[n].id # n
    /\ gates[Len(gates)].annotation = PositionString(Len(gates) - 1)

\* The nodes that a set of nodes depends on, through up to k edges.
RECURSIVE Ancestors(_, _, _)
Ancestors(deps, nodes, k) ==
    IF k = 0 THEN {}
    ELSE LET direct == UNION { deps[n] : n \in nodes }
         IN  direct \cup Ancestors(deps, direct, k - 1)

\* The mapping order() would hand to the scheduler in this state.
DependenciesNow == Dependencies(SortedByTime(gates), qubits)

\* C14: the dependency mapping that order() passes to the scheduler has an
\* entry for every gate, each of its edges points from a gate to a gate
\* with a smaller index in the time-sorted list, and no gate depends on
\* itself through any number of edges.
C14_AcyclicDependencies ==
    phase \in {"build", "synth"} =>
        LET deps == DependenciesNow
        IN  /\ DOMAIN deps = 1 .. Len(gates)
            /\ \A g2 \in DOMAIN deps : \A g1 \in deps[g2] : g1 < g2
            /\ \A n \in DOMAIN deps :
                   n \notin Ancestors(deps, {n}, Len(gates))

\* Reached: a gate that names one qubit twice depends on a gate with the
\* same timestamp.
C14_Witness ==
    /\ phase \in {"build", "synth"}
    /\ LET all_gates == SortedByTime(gates)
       IN  \E g2 \in 1 .. Len(all_gates) : \E g1 \in DependenciesNow[g2] :
               /\ all_gates[g1].time = all_gates[g2].time
               /\ Len(all_gates[g2].involved_qubits) = 2
               /\ all_gates[g2].involved_qubits[1]
                      = all_gates[g2].involved_qubits[2]

(***************************************************************************)
(* Properties of add_waiting_gates                                         *)
(***************************************************************************)
Channels == { i \in 1 .. Len(gates) : gates[i].kind = "amp_ph_damping" }

ChannelsOf(b) == { i \in Channels : gates[i].involved_qubits = <<b>> }

\* The state after exactly one add_waiting_gates call that resolved its
\* window to tmin <= tmax; the circuit held no channel before the call.
AfterOneSynthesis ==
    /\ calls = 1
    /\ window[1] # None
    /\ window[1] <= window[2]

\* tmin, tmax and the timestamps of the gates of b (channels apart)
\* inside the window.
GatePoints(b) ==
    { gates[i].time : i \in { k \in (1 .. Len(gates)) \ Channels :
                                /\ involves_qubit(gates[k], b)
                                /\ window[1] <= gates[k].time
                                /\ gates[k].time <= window[2] } }

Points(b) == {window[1], window[2]} \cup GatePoints(b)

\* The temporally adjacent points of b.
AdjacentPoints(b) ==
    { xy \in Points(b) \X Points(b) :
        /\ xy[1] < xy[2]
        /\ \A z \in Points(b) : ~(xy[1] < z /\ z < xy[2]) }

\* The channels of b centred at the midpoint of [x, y] and as long as it.
Covering(b, x, y) ==
    { i \in ChannelsOf(b) :
        2 * gates[i].time = x + y /\ gates[i].duration = y - x }

\* C3: after one add_waiting_gates call on a circuit without channels, each
\* gap between adjacent points of a qubit (tmin, its gates in the window,
\* tmax) is at most 1e-6 or covered by exactly one channel of that qubit,
\* centred at the gap's midpoint and as long as the gap.
C3_NoIdleGap ==
    AfterOneSynthesis =>
        \A b \in CircuitQubits : \A xy \in AdjacentPoints(b) :
            \/ xy[2] - xy[1] <= Eps
            \/ Cardinality(Covering(b, xy[1], xy[2])) = 1

\* Reached: one qubit has a gap above 1e-6 between two of its gates and a
\* gap of at most 1e-6.
C3_Witness ==
    /\ AfterOneSynthesis
    /\ \E b \in CircuitQubits :
           /\ \E xy \in AdjacentPoints(b) :
                  /\ xy[2] - xy[1] > Eps
                  /\ {xy[1], xy[2]} \subseteq GatePoints(b)
                  /\ Cardinality(Covering(b, xy[1], xy[2])) = 1
           /\ \E xy \in AdjacentPoints(b) : xy[2] - xy[1] <= Eps

RECURSIVE SumDurations(_)
SumDurations(idx) ==
    IF idx = {} THEN 0
    ELSE LET i == CHOOSE k \in idx : TRUE
         IN  gates[i].duration + SumDurations(idx \ {i})

Abs(x) == IF x < 0 THEN 0 - x ELSE x

\* How far the channels of b are from filling the window.
SpanError(b) == Abs(SumDurations(ChannelsOf(b)) - (window[2] - window[1]))

\* C4 as stated: after one add_waiting_gates call on a circuit without
\* channels, the durations of the channels of each qubit sum to
\* tmax - tmin within 1e-6.
C4_SpanWithinEps ==
    (calls = 1 /\ window[1] # None) =>
        \A b \in CircuitQubits : SpanError(b) <= Eps

\* C4 as amended: the durations of the channels of each qubit sum to
\* tmax - tmin within 2e-6 (each of the two boundary gaps is left out when
\* it is at most 1e-6).
C4_SpanWithinTwoEps ==
    (calls = 1 /\ window[1] # None) =>
        \A b \in CircuitQubits : SpanError(b) <= 2 * Eps

\* Reached: a qubit whose leading and trailing gaps are both left out,
\* being non-zero and at most 1e-6, in a window longer than 2e-6, so that
\* its channels fall 2e-6 short of the window.
C4_Witness ==
    /\ AfterOneSynthesis
    /\ window[2] - window[1] > 2 * Eps
    /\ \E b \in CircuitQubits :
           /\ GatePoints(b) # {}
           /\ \A t \in GatePoints(b) : t > window[1] /\ t < window[2]
           /\ \E t \in GatePoints(b) : t - window[1] <= Eps
           /\ \E t \in GatePoints(b) : window[2] - t <= Eps
           /\ ChannelsOf(b) # {}
           /\ SpanError(b) = 2 * Eps

\* Two channels cover time intervals that share more than an endpoint
\* (coordinates doubled: [2*time - duration, 2*time + duration]).
Overlap(c, d) ==
    LET lo == IF 2 * c.time - c.duration > 2 * d.time - d.duration
              THEN 2 * c.time - c.duration ELSE 2 * d.time - d.duration
        hi == IF 2 * c.time + c.duration < 2 * d.time + d.duration
              THEN 2 * c.time + c.duration ELSE 2 * d.time + d.duration
    IN  lo < hi

NoOverlap ==
    \A b \in CircuitQubits : \A i, j \in ChannelsOf(b) :
        i # j => ~Overlap(gates[i], gates[j])

\* C5: after synthesis no two synthesized channels of one qubit cover
\* overlapping intervals.
C5_NoOverlapEver == NoOverlap

\* The channels of a single add_waiting_gates call on a circuit without
\* channels do not overlap: a repeated synthesis (C18) is what makes
\* channels overlap.
C5_NoOverlapAfterOne == (calls <= 1) => NoOverlap

\* Reached: after one call a qubit has two channels of positive duration.
C5_Witness ==
    /\ calls = 1
    /\ \E b \in CircuitQubits : \E i, j \in ChannelsOf(b) :
           i # j /\ gates[i].duration > 0 /\ gates[j].duration > 0

\* An add_waiting_gates call without gates in the collection and with a
\* window that is not given in full.
EmptyUnboundedCall ==
    /\ gates = <<>>
    /\ \E tmin, tmax \in Times \cup {None} :
           /\ tmin = None \/ tmax = None
           /\ add_waiting_gates(tmin, tmax)

\* What C16 says of one add_waiting_gates call that resolved its window to
\* [tmin, tmax]: the gates of before are kept in place and unchanged, and
\* every gate added is a channel on a qubit of the circuit with its
\* timestamp inside [tmin, tmax].
OnlyAppendsChannels ==
    /\ Len(gates') >= Len(gates)
    /\ \A i \in 1 .. Len(gates) :
           /\ gates'[i].time = gates[i].time
           /\ gates'[i].involved_qubits = gates[i].involved_qubits
           /\ gates'[i].kind = gates[i].kind
    /\ \A i \in (Len(gates) + 1) .. Len(gates') :
           /\ gates'[i].kind = "amp_ph_damping"
           /\ \E b \in CircuitQubits : gates'[i].involved_qubits = <<b>>
           /\ window'[1] <= gates'[i].time
           /\ gates'[i].time <= window'[2]

\* C16: add_waiting_gates only appends decoherence channels, on qubits of
\* the circuit and with timestamps inside [tmin, tmax], keeping every gate
\* of before in place and unchanged; without gates and without a window
\* given in full it leaves the collection unchanged.
C16_OnlyAppendsChannels ==
    [][ /\ calls' = calls + 1 => OnlyAppendsChannels
        /\ EmptyUnboundedCall => gates' = gates ]_vars

\* C18: a second add_waiting_gates call with the same window [tmin, tmax],
\* tmin <= tmax, and no gate added since the first call adds no channel.
C18_Idempotent ==
    [][ ( /\ calls = 1
          /\ calls' = 2
          /\ window[1] # None
          /\ window[1] <= window[2]
          /\ window' = window ) => gates' = gates ]_vars

\* C19: every channel that add_waiting_gates inserts has a duration of at
\* least 0, whether both bounds of the window are given (tmin <= tmax),
\* none, or only one of them.
C19_NonNegativeDuration ==
    \A i \in Channels : gates[i].duration >= 0

(***************************************************************************)
(* Properties of Measurement.apply_to                                      *)
(***************************************************************************)
Pop(v) == IF v = 0 THEN Ground ELSE Excited

\* A Measurement is being applied: its first statement has been executed
\* and its last has not.
InMeasurement == phase = "replay" /\ pc # "next"

\* A Measurement has just been applied in full: it is the gate before pos.
MeasurementDone ==
    /\ phase \in {"replay", "done"}
    /\ pc = "next"
    /\ pos > 1
    /\ is_measurement(gates[pos - 1])

\* The five calls of one application, in the order of the code.
PeekCall(bit) == Call("peak_measurement", <<bit>>, loc.p)
SendCall == Call("send", loc.p, loc.ret)
AppendCall == Call("append", <<loc.ret[1]>>, <<>>)
ProjectCall(bit) == Call("project_measurement", <<bit, loc.ret[2]>>, <<>>)
WeightCall == Call("classical_probability", loc.ret[3], <<>>)

RECURSIVE ProductOf(_)
ProductOf(h) ==
    IF h = <<>> THEN One ELSE Times_prob(ProductOf(Tail(h)), Head(h).out[3])

\* The product of the weights of all the replies the samplers have given.
RECURSIVE WeightsGiven(_)
WeightsGiven(i) ==
    IF i = 0 THEN One ELSE Times_prob(WeightsGiven(i - 1), ProductOf(hist[i]))

\* C6: one application of a Measurement peeks (p0, p1) without changing
\* the state, sends (p0, p1) to the sampler, appends the first value of the
\* reply to the history, projects the qubit onto the second and multiplies
\* classical_probability by the third, in this order and once each; until
\* the projection the state still reports the (p0, p1) that was peeked.
C6_ApplyOrder ==
    /\ InMeasurement =>
        LET bit == Current.involved_qubits[1]
        IN  /\ is_measurement(Current)
            /\ pc = "send" =>
                   /\ trace = <<PeekCall(bit)>>
                   /\ Current.measurements = <<>>
                   /\ sdm.pop[bit] = loc.p
                   /\ sdm.classical_probability = WeightsGiven(Len(hist))
            /\ pc = "append" =>
                   /\ trace = <<PeekCall(bit), SendCall>>
                   /\ hist[Current.sampler][Len(hist[Current.sampler])]
                          = [p |-> loc.p, out |-> loc.ret]
                   /\ Current.measurements = <<>>
                   /\ sdm.pop[bit] = loc.p
            /\ pc = "project" =>
                   /\ trace = <<PeekCall(bit), SendCall, AppendCall>>
                   /\ Current.measurements = <<loc.ret[1]>>
                   /\ sdm.pop[bit] = loc.p
            /\ pc = "weight" =>
                   /\ trace = <<PeekCall(bit), SendCall, AppendCall,
                                ProjectCall(bit)>>
                   /\ Current.measurements = <<loc.ret[1]>>
                   /\ sdm.pop[bit] = Pop(loc.ret[2])
            /\ pc \in {"append", "project", "weight"} =>
                   Times_prob(sdm.classical_probability, loc.ret[3])
                       = WeightsGiven(Len(hist))
    /\ MeasurementDone =>
        LET bit == gates[pos - 1].involved_qubits[1]
        IN  /\ trace = <<PeekCall(bit), SendCall, AppendCall,
                         ProjectCall(bit), WeightCall>>
            /\ gates[pos - 1].measurements = <<loc.ret[1]>>
            /\ sdm.pop[bit] = Pop(loc.ret[2])
            /\ sdm.classical_probability = WeightsGiven(Len(hist))

\* Reached: a Measurement applied in full that peeked an undecided qubit,
\* projected it and changed classical_probability.
C6_Witness ==
    /\ MeasurementDone
    /\ Len(trace) = 5
    /\ loc.p = Mixed
    /\ sdm.pop[gates[pos - 1].involved_qubits[1]] # Mixed
    /\ sdm.classical_probability # One

\* The Measurement being applied uses the noisy-readout sampler and has
\* projected the state.
NoisyProjected ==
    /\ InMeasurement
    /\ pc = "weight"
    /\ samplers[Current.sampler].kind = "noisy"

\* C7: a Measurement with the noisy-readout sampler projects the state
\* onto the true outcome and records the declaration: the flip of the true
\* outcome, with weight readoutError, when the readout draw is below
\* readoutError, and else the true outcome, with weight 1 - readoutError.
C7_NoisyProjectsTrueOutcome ==
    NoisyProjected =>
        LET s == samplers[Current.sampler]
            bit == Current.involved_qubits[1]
            recorded == Current.measurements[Len(Current.measurements)]
            weight == loc.ret[3]
        IN  /\ sdm.pop[bit] = Pop(s.proj)
            /\ IF s.rng < s.readout_error
               THEN /\ recorded = 1 - s.proj
                    /\ weight = <<s.readout_error, RngMod>>
               ELSE /\ recorded = s.proj
                    /\ weight = <<RngMod - s.readout_error, RngMod>>

(***************************************************************************)
(* Properties of the samplers                                              *)
(***************************************************************************)
SamplerIds == 1 .. Len(samplers)

\* C8: the fixed-selection and the unbiased-stochastic sampler return
\* weight 1 on every send, and the noisy-readout sampler readoutError or
\* 1 - readoutError.
C8_WeightLaws ==
    \A i \in SamplerIds : \A k \in 1 .. Len(hist[i]) :
        LET weight == hist[i][k].out[3]
            s == samplers[i]
        IN  IF s.kind = "noisy"
            THEN weight \in { <<s.readout_error, RngMod>>,
                              <<RngMod - s.readout_error, RngMod>> }
            ELSE weight = One

\* Reached: each kind of sampler has replied after an earlier reply, and a
\* noisy-readout sampler has given both of its weights.
C8_Witness ==
    /\ \E i \in SamplerIds :
           /\ samplers[i].kind = "noisy"
           /\ \E k, m \in 1 .. Len(hist[i]) :
                  hist[i][k].out[3] # hist[i][m].out[3]
    /\ \E i \in SamplerIds :
           samplers[i].kind # "noisy" /\ Len(hist[i]) > 1

\* The first k values sent to samplers i and j are the same.
SameInputs(i, j, k) == \A m \in 1 .. k : hist[i][m].p = hist[j][m].p

\* C9: two unbiased-stochastic samplers made with the same seed give the
\* same k-th reply whenever the first k values sent to them are the same.
C9_Reproducible ==
    \A i, j \in SamplerIds :
        ( /\ samplers[i].kind = "uniform"
          /\ samplers[j].kind = "uniform"
          /\ samplers[i].seed = samplers[j].seed )
        => \A k \in 1 .. Len(hist[i]) :
               (k <= Len(hist[j]) /\ SameInputs(i, j, k))
               => hist[i][k].out = hist[j][k].out

\* Reached: two such samplers have been sent the same values, and their
\* replies are not all the same outcome.
C9_Witness ==
    \E i, j \in SamplerIds :
        /\ i # j
        /\ samplers[i].kind = "uniform"
        /\ samplers[j].kind = "uniform"
        /\ samplers[i].seed = samplers[j].seed
        /\ Len(hist[i]) = MaxSends
        /\ Len(hist[j]) = MaxSends
        /\ SameInputs(i, j, MaxSends)
        /\ \E k, m \in 1 .. MaxSends : hist[i][k].out # hist[i][m].out

\* The random stream of a seed after n draws.
RECURSIVE StreamAfter(_, _)
StreamAfter(seed, n) ==
    IF n = 0 THEN RandomState(seed) ELSE random_sample(StreamAfter(seed, n - 1))

RandomSamplers == { i \in SamplerIds : samplers[i].kind \in {"uniform", "noisy"} }

\* The stream of sampler i stands where its draws have taken it from the
\* seed: it was never reset.
StreamNeverReset(i) ==
    samplers[i].rng = StreamAfter(samplers[i].seed, samplers[i].draws)

\* C12 as stated: a sampler that uses randomness has made exactly k draws
\* after k invocations, and its stream is never reset.
C12_OneDrawPerSend ==
    \A i \in RandomSamplers :
        /\ samplers[i].draws = Len(hist[i])
        /\ StreamNeverReset(i)

DrawsPerSend(kind) == IF kind = "noisy" THEN 2 ELSE 1

\* C12 as amended: after k invocations the unbiased-stochastic sampler has
\* made exactly k draws and the noisy-readout sampler exactly 2k (one for
\* the outcome and one for the readout), and the stream is never reset.
C12_DrawsPerSend ==
    \A i \in RandomSamplers :
        /\ samplers[i].draws = DrawsPerSend(samplers[i].kind) * Len(hist[i])
        /\ StreamNeverReset(i)

\* Reached: an unbiased-stochastic and a noisy-readout sampler have each
\* been invoked MaxSends times.
C12_Witness ==
    \E i, j \in SamplerIds :
        /\ samplers[i].kind = "uniform" /\ Len(hist[i]) = MaxSends
        /\ samplers[j].kind = "noisy" /\ Len(hist[j]) = MaxSends

\* C13: the k-th reply of an unbiased-stochastic sampler is (0, 0, 1) when
\* the k-th draw r of its stream has r < p0/(p0+p1) for the (p0, p1) of the
\* k-th send, and (1, 1, 1) otherwise.
C13_NoLag ==
    \A i \in SamplerIds : samplers[i].kind = "uniform" =>
        \A k \in 1 .. Len(hist[i]) :
            LET r == StreamAfter(samplers[i].seed, k)
                p == hist[i][k].p
            IN  hist[i][k].out = IF r * (p[1] + p[2]) < RngMod * p[1]
                                 THEN <<0, 0, One>>
                                 ELSE <<1, 1, One>>

\* Reached: an unbiased-stochastic sampler has replied 0 to a send whose
\* pair differs from the pair of the send before, for which the same draw
\* would have given 1.
C13_Witness ==
    \E i \in SamplerIds :
        /\ samplers[i].kind = "uniform"
        /\ \E k \in 2 .. Len(hist[i]) :
               /\ hist[i][k].p # hist[i][k - 1].p
               /\ hist[i][k].out[1] = 0
               /\ ~Below(StreamAfter(samplers[i].seed, k), hist[i][k - 1].p)

(***************************************************************************)
(* Properties of the replay of a whole circuit                             *)
(***************************************************************************)
MeasurementGates == { i \in 1 .. Len(gates) : is_measurement(gates[i]) }

AllSelection ==
    \A i \in MeasurementGates : samplers[gates[i].sampler].kind = "selection"

\* C10: when every measurement has a fixed-selection sampler of its own,
\* every outcome recorded is that sampler's result, every projection is
\* onto it, whatever (p0, p1) was peeked, and classical_probability stays
\* what it was before the replay.
C10_FixedSelection ==
    (AllSelection /\ phase \in {"replay", "done"}) =>
        /\ \A i \in MeasurementGates :
               \A k \in 1 .. Len(gates[i].measurements) :
                   gates[i].measurements[k] = samplers[gates[i].sampler].result
        /\ (InMeasurement /\ pc = "weight") =>
               /\ loc.ret[2] = samplers[Current.sampler].result
               /\ sdm.pop[Current.involved_qubits[1]]
                      = Pop(samplers[Current.sampler].result)
        /\ sdm.classical_probability = InitialSdm.classical_probability

\* Reached: a circuit synthesized, ordered and replayed to its end, with a
\* measurement fixed to 1 of a qubit that reported (1, 0).
C10_Witness ==
    /\ phase = "done"
    /\ calls = 1
    /\ Channels # {}
    /\ AllSelection
    /\ \E i \in MeasurementGates :
           /\ gates[i].measurements = <<1>>
           /\ hist[gates[i].sampler] # <<>>
           /\ hist[gates[i].sampler][1].p = Ground

\* The gates applied so far by the replay in progress are the first gates
\* of the collection, each once and in collection order; a gate is applied
\* in full before the next one is; a replay that ends has applied them all.
AppliedInOrder ==
    phase \in {"replay", "done", "failed"} =>
        /\ Len(applied) = IF phase = "replay" /\ pc = "next" THEN pos - 1
                          ELSE IF phase = "done" THEN Len(gates)
                          ELSE pos
        /\ Len(applied) <= Len(gates)
        /\ \A n \in 1 .. Len(applied) : applied[n] = gates[n].id

\* The measurement at index i has recorded its outcome of the replay in
\* progress.
RecordedNow(i) ==
    \/ phase = "done"
    \/ phase \in {"replay", "failed"} /\ i < pos
    \/ phase = "replay" /\ i = pos /\ pc \in {"project", "weight"}

\* The measurement at index i is the only one that holds its sampler.
OwnSampler(i) ==
    \A j \in MeasurementGates : gates[j].sampler = gates[i].sampler => j = i

\* Every measurement holds one outcome for each replay that has reached
\* it (a replay that a sampler's exception has ended reaches no further
\* gate), in replay order: the k-th entry is what its sampler declared in
\* the k-th replay.
OneOutcomePerReplay ==
    phase \in {"ordered", "replay", "done", "failed"} =>
        \A i \in MeasurementGates :
            /\ Len(gates[i].measurements)
                   = IF RecordedNow(i) THEN replays
                     ELSE IF replays = 0 THEN 0 ELSE replays - 1
            /\ OwnSampler(i) =>
                   \A k \in 1 .. Len(gates[i].measurements) :
                       gates[i].measurements[k] = hist[gates[i].sampler][k].out[1]

\* No step changes or removes an entry of a measurement's history.
HistoriesGrow ==
    \A i \in 1 .. Len(gates) : \E j \in 1 .. Len(gates') :
        /\ gates'[j].id = gates[i].id
        /\ Len(gates'[j].measurements) >= Len(gates[i].measurements)
        /\ SubSeq(gates'[j].measurements, 1, Len(gates[i].measurements))
               = gates[i].measurements

\* C17: a replay applies every gate of the collection exactly once, one at
\* a time and in collection order; after k replays every measurement holds
\* exactly k declared outcomes, in replay order, and no entry recorded is
\* ever changed or removed.
C17_SequentialReplay ==
    [][AppliedInOrder' /\ OneOutcomePerReplay' /\ HistoriesGrow]_vars

\* Reached: the last of MaxReplays replays of a circuit of two gates has
\* ended, and a measurement holds MaxReplays outcomes.
C17_Witness ==
    /\ phase = "done"
    /\ replays = MaxReplays
    /\ Len(applied) = MaxGates
    /\ \E i \in MeasurementGates : Len(gates[i].measurements) = MaxReplays

\* The reply is a triple (declared, projected, weight) without an error.
ValidTriple(reply) ==
    /\ reply.err = ""
    /\ Len(reply.out) = 3
    /\ reply.out[1] \in {0, 1}
    /\ reply.out[2] \in {0, 1}

\* C20: giving a sampler that a Measurement holds to one more Measurement
\* raises no error, for each of the three samplers, and the sampler still
\* replies to every later send with a triple.
C20_SharedSampler ==
    [][ \A i \in SamplerIds :
            (\E bit \in QubitNames, time \in GateTimes :
                 add_measurement_shared(bit, time, i))
            => /\ raised' = ""
               /\ \A p \in Probs : ValidTriple(Resume(samplers'[i], p)) ]_vars

(***************************************************************************)
(* Properties of add_gate                                                  *)
(***************************************************************************)
\* A call of add_gate with a string that is no registered kind.
UnknownKindCall ==
    \E gate_type \in KindNames \ gate_classes, bit \in QubitNames,
       time \in GateTimes : add_gate(gate_type, bit, time)

\* C11 as stated: add_gate with a string that is no registered kind fails
\* with a ConfigurationError and leaves the collection as it was.
C11_UnknownKindConfigurationError ==
    [][UnknownKindCall => (raised' = "ConfigurationError" /\ gates' = gates)]_vars

\* C11 as amended: add_gate with a string that is no registered kind fails
\* with a KeyError, and looking up add_<kind> for such a kind fails with an
\* AttributeError; both leave the collection as it was.
C11_UnknownKindKeyError ==
    [][ /\ UnknownKindCall => (raised' = "KeyError" /\ gates' = gates)
        /\ (\E kind \in KindNames \ gate_classes : Circuit_getattribute(kind))
               => (raised' = "AttributeError" /\ gates' = gates) ]_vars

\* Reached: add_gate has failed on an unknown kind with a gate in the
\* collection.
C11_Witness ==
    /\ raised = "KeyError"
    /\ gates # <<>>

====
